---- MODULE Spec2Model ----
(***************************************************************************)
(* g-print-designer: the design editor's history subsystem (snapshots on   *)
(* object:added / object:removed / object:modified, undo, redo) and the    *)
(* strict-clamp object:moving handler of src/components/DesignEditor.tsx.  *)
(*                                                                         *)
(* React state is modelled as rendered state plus a queue of updates:      *)
(* history, historyIndex and isHistoryProcessing are the values of the     *)
(* last render, which are also the values every registered handler closes  *)
(* over; setState calls append to `pending`; Render applies the queue and  *)
(* re-runs the effects. A handler runs to completion before React renders  *)
(* (automatic batching), and React renders before the next input event or  *)
(* asynchronous completion is delivered. A loadFromJSON that has no pixel  *)
(* source to load resolves before the next input event; one that loads an  *)
(* image or the mockup stays in flight across events.                      *)
(***************************************************************************)
EXTENDS Integers, Sequences, FiniteSets, TLC

VARIABLES
    canvasSet,            \* React state `canvas` is non-null (DesignEditor.tsx:31)
    objs,                 \* fabricCanvas objects, back to front
    backgroundImage,      \* fabricCanvas.backgroundImage is set
    bgLoad,               \* loadBackground: "pending", "done" or "failed"
    history,              \* React state `history` (DesignEditor.tsx:41)
    historyIndex,         \* React state `historyIndex` (DesignEditor.tsx:42)
    isHistoryProcessing,  \* React state `isHistoryProcessing` (DesignEditor.tsx:44)
    pending,              \* queued React state updates, in call order
    loads,                \* canvas.loadFromJSON calls in flight (undo / redo)
    lastCall,             \* the handler that made the last step, and its outcome
    nMut,                 \* mutation events handled by a listening saveHistory
    steps,                \* input events handled so far
    undone,               \* an undo or redo has restored (or tried to restore) a snapshot
    area,                 \* productConfig.editableArea
    mobj,                 \* the object being dragged (object:moving target)
    cv,                   \* the fabric canvas the utilities and panels act on
    obs,                  \* what the last utility / panel call did and returned
    fh,                   \* history and historyIndex of the free-placement editor
    imgLoads,             \* FabricImage.fromURL calls of addImageToCanvas in flight
    ids,                  \* the `id` property of each canvas object ("" while unset)
    drawer                \* ExportDrawer state and the raster of its last export

vars == <<canvasSet, objs, backgroundImage, bgLoad, history, historyIndex,
          isHistoryProcessing, pending, loads, lastCall, nMut, steps, undone,
          area, mobj, cv, obs, fh, imgLoads, ids, drawer>>

editorVars == <<canvasSet, objs, backgroundImage, bgLoad, history, historyIndex,
                isHistoryProcessing, pending, loads, lastCall, nMut, steps,
                undone>>

clampVars == <<area, mobj>>

toolVars == <<imgLoads, ids, drawer>>

sceneVars == <<cv, obs, fh, imgLoads, ids, drawer>>

\* Bounds of the model.
MaxObjs == 2
MaxSteps == 4
MaxLoads == 2
MaxArea == 3
MaxDim == 2
MaxScale == 2
MaxPos == 5

Min(a, b) == IF a < b THEN a ELSE b

(***************************************************************************)
(* Scene objects                                                           *)
(***************************************************************************)
MarkerName == "editableAreaOverlay"

\* createEditableAreaOverlay: a non-selectable, non-evented Rect with the reserved name.
Overlay == [type |-> "rect", name |-> MarkerName, selectable |-> FALSE,
            modified |-> FALSE]

ObjTypes == {"textbox", "image"}

\* addTextToCanvas / addImageToCanvas: a new selectable object without a name.
NewObj(t) == [type |-> t, name |-> "", selectable |-> TRUE, modified |-> FALSE]

IsMarker(o) == o.name = MarkerName

HasMarker(s) == \E i \in 1..Len(s) : IsMarker(s[i])

NonMarker(s) == SelectSeq(s, LAMBDA o : ~IsMarker(o))

RemoveAt(s, i) == SubSeq(s, 1, i - 1) \o SubSeq(s, i + 1, Len(s))

(***************************************************************************)
(* Snapshots                                                               *)
(***************************************************************************)
\* JSON.stringify(canvas.toJSON(['id','name','selectable','evented'])): every object of
\* the canvas (the marker included) and the background image when one is set.
ToJSON(o, bg) == [objects |-> o, backgroundImage |-> bg]

\* A snapshot whose reconstruction has to load pixels (an image object or the mockup).
NeedsPixels(json) ==
    json.backgroundImage \/ \E i \in 1..Len(json.objects) : json.objects[i].type = "image"

(***************************************************************************)
(* React update queue                                                      *)
(***************************************************************************)
NoJSON == [objects |-> <<>>, backgroundImage |-> FALSE]

Upd(u, idx, json, b) == [u |-> u, idx |-> idx, json |-> json, b |-> b]

\* setHistory(prev => { newHistory = prev.slice(0, historyIndex + 1); push(json) })
\* with historyIndex the value the handler closed over.
PushUpd(idx, json) == Upd("push", idx, json, FALSE)
\* setHistoryIndex(prev => prev + 1)
IncUpd == Upd("inc", 0, NoJSON, FALSE)
\* setHistoryIndex(i)
SetIndexUpd(i) == Upd("setIndex", i, NoJSON, FALSE)
\* setIsHistoryProcessing(b)
SetProcUpd(b) == Upd("setProc", 0, NoJSON, b)
\* setCanvas(fabricCanvas)
SetCanvasUpd == Upd("setCanvas", 0, NoJSON, TRUE)

\* Array.prototype.slice(0, n) for n >= 0.
Slice0(h, n) == SubSeq(h, 1, Min(n, Len(h)))

RECURSIVE ApplyHistory(_, _)
ApplyHistory(h, q) ==
    IF q = <<>> THEN h
    ELSE LET x == Head(q)
         IN ApplyHistory(IF x.u = "push" THEN Append(Slice0(h, x.idx + 1), x.json) ELSE h,
                         Tail(q))

RECURSIVE ApplyIndex(_, _)
ApplyIndex(i, q) ==
    IF q = <<>> THEN i
    ELSE LET x == Head(q)
         IN ApplyIndex(IF x.u = "inc" THEN i + 1
                       ELSE IF x.u = "setIndex" THEN x.idx ELSE i,
                       Tail(q))

RECURSIVE ApplyProc(_, _)
ApplyProc(p, q) ==
    IF q = <<>> THEN p
    ELSE LET x == Head(q)
         IN ApplyProc(IF x.u = "setProc" THEN x.b ELSE p, Tail(q))

RECURSIVE ApplyCanvas(_, _)
ApplyCanvas(c, q) ==
    IF q = <<>> THEN c
    ELSE ApplyCanvas(c \/ Head(q).u = "setCanvas", Tail(q))

(***************************************************************************)
(* saveHistory and the object:* listeners                                  *)
(***************************************************************************)
\* saveHistory as closed over (idx, proc), called with the canvas holding o and bg.
saveHistory(idx, proc, o, bg) ==
    IF proc THEN <<>> ELSE <<PushUpd(idx, ToJSON(o, bg)), IncUpd>>

\* One object:added / object:removed / object:modified event, raised while the canvas
\* holds o and bg. The listeners exist once the history effect has run (canvas non-null).
Fire(o, bg) ==
    IF canvasSet THEN saveHistory(historyIndex, isHistoryProcessing, o, bg) ELSE <<>>

\* The events of a handler that leaves the canvas in the states of `scenes`, one by one.
RECURSIVE FireAll(_, _)
FireAll(scenes, bg) ==
    IF scenes = <<>> THEN <<>> ELSE Fire(Head(scenes), bg) \o FireAll(Tail(scenes), bg)

\* The number of events saveHistory records among n raised.
Recorded(n) == IF canvasSet /\ ~isHistoryProcessing THEN n ELSE 0

\* nMut after a handler that raised n events: the count is kept only as long as no
\* undo or redo has been requested.
Count(n) == IF undone THEN 0 ELSE nMut + Recorded(n)

Idle == pending = <<>>

\* A new task may start: no restore is outstanding that resolves within the current
\* task (loadFromJSON of a snapshot without pixel sources resolves in microtasks).
Settled == \A k \in 1..Len(loads) : NeedsPixels(loads[k].json)

\* The editor takes an input event: nothing is queued, the canvas is in React state
\* (the toolbar and the keydown listener need it) and the model's budget allows it.
Ready == Idle /\ Settled /\ canvasSet /\ steps < MaxSteps

Call(op, res, from) == [op |-> op, res |-> res, from |-> from]

\* The canvas after each of the successive canvas.remove(o) of the objects of s, in
\* order (each removal raises object:removed); the marker stays when keepMarker.
RECURSIVE RemovalScenes(_, _, _)
RemovalScenes(kept, s, keepMarker) ==
    IF s = <<>> THEN <<>>
    ELSE IF ~(keepMarker /\ IsMarker(Head(s)))
         THEN <<kept \o Tail(s)>> \o RemovalScenes(kept, Tail(s), keepMarker)
         ELSE RemovalScenes(Append(kept, Head(s)), Tail(s), keepMarker)

\* The canvas after each of the successive canvas.add(o) of the objects of s.
RECURSIVE AdditionScenes(_, _)
AdditionScenes(cur, s) ==
    IF s = <<>> THEN <<>>
    ELSE <<Append(cur, Head(s))>> \o AdditionScenes(Append(cur, Head(s)), Tail(s))

\* n copies of the scene s: canvas.add(...objects) pushes all, then raises each event.
Repeat(s, n) == [i \in 1..n |-> s]

(***************************************************************************)
(* Initial state: the component has mounted, the canvas effect has run     *)
(* (new fabric.Canvas, loadBackground() started, setCanvas queued).        *)
(***************************************************************************)
\* The editable area and the dragged object while only the history is exercised.
DefaultArea == [left |-> 1, top |-> 1, width |-> 1, height |-> 1]
DefaultObj ==
    [name |-> "", left |-> 1, top |-> 1, width |-> 1, height |-> 1, scaleX |-> 1,
     scaleY |-> 1, dragLeft |-> 1, dragTop |-> 1, moved |-> FALSE]

\* new fabric.Canvas(...): no objects, no background image, white fill, no selection.
EmptyCanvas ==
    [objs |-> <<>>, bg |-> "none", bgColor |-> "#ffffff", active |-> 0]

\* ExportDrawer as mounted: the default width and height, the aspect lock on, nothing
\* exported.
ClosedDrawer ==
    [open |-> FALSE, width |-> 4500, height |-> 5400, locked |-> TRUE,
     rasterW |-> 0, rasterH |-> 0]

\* useState<string[]>([]) and useState(-1) of the free-placement editor.
NoFreeHistory == [entries |-> <<>>, index |-> -1]

\* The record of a utility / panel call: its name and argument, the canvas at the
\* moment it rasterized (exports only), the document it wrote or read, and how it
\* ended ("ok", "threw", "rejected").
Observation(op, arg, mid, out, res) ==
    [op |-> op, arg |-> arg, mid |-> mid, out |-> out, res |-> res]

NoDoc == [kind |-> "none", backgroundImage |-> "none", objects |-> <<>>]

NoObs == Observation("none", "", EmptyCanvas, NoDoc, "ok")

Init ==
    /\ canvasSet = FALSE
    /\ objs = <<>>
    /\ backgroundImage = FALSE
    /\ bgLoad = "pending"
    /\ history = <<>>
    /\ historyIndex = -1
    /\ isHistoryProcessing = FALSE
    /\ pending = <<SetCanvasUpd>>
    /\ loads = <<>>
    /\ lastCall = Call("mount", "ok", -1)
    /\ nMut = 0
    /\ steps = 0
    /\ undone = FALSE
    /\ area = DefaultArea
    /\ mobj = DefaultObj
    /\ cv = EmptyCanvas
    /\ fh = NoFreeHistory
    /\ imgLoads = <<>>
    /\ ids = <<>>
    /\ drawer = ClosedDrawer
    /\ obs = NoObs

(***************************************************************************)
(* React render: apply the queued updates, then run the history effect     *)
(* (deps [canvas, isHistoryProcessing, historyIndex]), whose body saves    *)
(* the initial snapshot when historyIndex is -1.                           *)
(***************************************************************************)
Render ==
    /\ pending # <<>>
    /\ canvasSet' = ApplyCanvas(canvasSet, pending)
    /\ history' = ApplyHistory(history, pending)
    /\ historyIndex' = ApplyIndex(historyIndex, pending)
    /\ isHistoryProcessing' = ApplyProc(isHistoryProcessing, pending)
    /\ LET effectRuns == /\ canvasSet'
                         /\ \/ canvasSet' # canvasSet
                            \/ historyIndex' # historyIndex
                            \/ isHistoryProcessing' # isHistoryProcessing
       IN pending' = IF effectRuns /\ historyIndex' = -1
                     THEN saveHistory(historyIndex', isHistoryProcessing', objs,
                                      backgroundImage)
                     ELSE <<>>
    /\ lastCall' = Call("render", "ok", -1)
    /\ UNCHANGED <<objs, backgroundImage, bgLoad, loads, nMut, undone>>
    /\ UNCHANGED steps
    /\ UNCHANGED clampVars
    /\ UNCHANGED sceneVars

(***************************************************************************)
(* loadBackground (DesignEditor.tsx:129-177)                               *)
(***************************************************************************)
\* The mockup has loaded: it becomes the background image, the overlay is added
\* (object:added is raised with the overlay on top) and then sent to the back.
BgLoaded ==
    /\ Idle /\ Settled
    /\ bgLoad = "pending"
    /\ bgLoad' = "done"
    /\ backgroundImage' = TRUE
    /\ objs' = <<Overlay>> \o objs
    /\ pending' = Fire(Append(objs, Overlay), TRUE)
    /\ nMut' = Count(1)
    /\ lastCall' = Call("bgLoaded", "ok", -1)
    /\ UNCHANGED <<canvasSet, history, historyIndex, isHistoryProcessing,
                   loads, undone>>
    /\ UNCHANGED steps
    /\ UNCHANGED clampVars
    /\ UNCHANGED sceneVars

\* FabricImage.fromURL rejected: the catch branch only clears isLoading.
BgFailed ==
    /\ Idle /\ Settled
    /\ bgLoad = "pending"
    /\ bgLoad' = "failed"
    /\ lastCall' = Call("bgFailed", "ok", -1)
    /\ UNCHANGED <<canvasSet, objs, backgroundImage, history, historyIndex,
                   isHistoryProcessing, pending, loads, nMut, undone>>
    /\ UNCHANGED steps
    /\ UNCHANGED clampVars
    /\ UNCHANGED sceneVars

(***************************************************************************)
(* Mutations of the scene                                                  *)
(***************************************************************************)
\* The designs a file or template may hold.
Incoming == {<<>>, <<NewObj("textbox")>>, <<NewObj("textbox"), NewObj("image")>>}

\* addTextToCanvas, or addImageToCanvas once its image has loaded: canvas.add(object).
AddObject(t) ==
    /\ Ready
    /\ Len(NonMarker(objs)) < MaxObjs
    /\ objs' = Append(objs, NewObj(t))
    /\ pending' = Fire(objs', backgroundImage)
    /\ nMut' = Count(1)
    /\ lastCall' = Call("mutation", "ok", -1)
    /\ UNCHANGED <<canvasSet, backgroundImage, bgLoad, history, historyIndex,
                   isHistoryProcessing, loads, undone>>
    /\ steps' = steps + 1
    /\ UNCHANGED clampVars
    /\ UNCHANGED sceneVars

\* handleKeyDown, Delete / Backspace with objs[i] the active object.
DeleteObject(i) ==
    /\ Ready
    /\ objs[i].selectable
    /\ IF IsMarker(objs[i]) \/ objs[i].name = "productMockup"
       THEN UNCHANGED <<objs, pending, nMut>>
       ELSE /\ objs' = RemoveAt(objs, i)
            /\ pending' = Fire(objs', backgroundImage)
            /\ nMut' = Count(1)
    /\ lastCall' = Call("mutation", "ok", -1)
    /\ UNCHANGED <<canvasSet, backgroundImage, bgLoad, history, historyIndex,
                   isHistoryProcessing, loads, undone>>
    /\ steps' = steps + 1
    /\ UNCHANGED clampVars
    /\ UNCHANGED sceneVars

\* The end of a drag / resize of objs[i]: fabric raises object:modified once.
ModifyObject(i) ==
    /\ Ready
    /\ objs[i].selectable
    /\ ~objs[i].modified
    /\ objs' = [objs EXCEPT ![i].modified = TRUE]
    /\ pending' = Fire(objs', backgroundImage)
    /\ nMut' = Count(1)
    /\ lastCall' = Call("mutation", "ok", -1)
    /\ UNCHANGED <<canvasSet, backgroundImage, bgLoad, history, historyIndex,
                   isHistoryProcessing, loads, undone>>
    /\ steps' = steps + 1
    /\ UNCHANGED clampVars
    /\ UNCHANGED sceneVars

\* importCanvasFromJSON once enlivenObjects has resolved with `incoming`: every
\* object but the overlay is removed, one canvas.remove each, then every enlivened
\* object but an overlay is added, one canvas.add each.
ImportJSON(incoming) ==
    /\ Ready
    /\ LET removed == RemovalScenes(<<>>, objs, TRUE)
           kept == SelectSeq(objs, IsMarker)
           added == NonMarker(incoming)
       IN /\ objs' = kept \o added
          /\ pending' = FireAll(removed \o AdditionScenes(kept, added), backgroundImage)
          /\ nMut' = Count(Len(removed) + Len(added))
    /\ lastCall' = Call("mutation", "ok", -1)
    /\ UNCHANGED <<canvasSet, backgroundImage, bgLoad, history, historyIndex,
                   isHistoryProcessing, loads, undone>>
    /\ steps' = steps + 1
    /\ UNCHANGED clampVars
    /\ UNCHANGED sceneVars

(***************************************************************************)
(* handleUndo / handleRedo (DesignEditor.tsx:224-262)                      *)
(***************************************************************************)
\* history[i] of the JavaScript array: defined for 0 <= i < history.length.
Defined(h, i) == 0 <= i /\ i < Len(h)

\* A faulty early return for handleUndo that lets the cursor 0 through (`< 0` for
\* `<= 0`); C4 must tell it from the guard of the code.
UndoReturnsAtNegativeOnly == historyIndex < 0 \/ ~canvasSet

\* handleUndo's early return.
UndoReturnsEarly == historyIndex <= 0 \/ ~canvasSet

\* handleRedo's early return.
RedoReturnsEarly == historyIndex >= Len(history) - 1 \/ ~canvasSet

\* The part of handleUndo / handleRedo up to the await, for the target index `target`.
StartRestore(op, early, target) ==
    /\ Ready
    /\ IF early
       THEN /\ lastCall' = Call(op, "noop", historyIndex)
            /\ UNCHANGED <<pending, loads, undone, nMut>>
       ELSE IF ~Defined(history, target)
       THEN \* `if (!json) { console.error(...); return; }`, then the finally block
            /\ pending' = <<SetProcUpd(TRUE), SetProcUpd(FALSE)>>
            /\ lastCall' = Call(op, "missing", historyIndex)
            /\ undone' = TRUE
            /\ nMut' = 0
            /\ UNCHANGED loads
       ELSE /\ Len(loads) < MaxLoads
            /\ pending' = <<SetProcUpd(TRUE)>>
            /\ loads' = Append(loads, [op |-> op, from |-> historyIndex,
                                       index |-> target, json |-> history[target + 1]])
            /\ lastCall' = Call(op, "started", historyIndex)
            /\ undone' = TRUE
            /\ nMut' = 0
    /\ UNCHANGED <<canvasSet, objs, backgroundImage, bgLoad, history, historyIndex,
                   isHistoryProcessing>>
    /\ steps' = steps + 1
    /\ UNCHANGED clampVars
    /\ UNCHANGED sceneVars

handleUndo == StartRestore("undo", UndoReturnsEarly, historyIndex - 1)

handleRedo == StartRestore("redo", RedoReturnsEarly, historyIndex + 1)

\* canvas.loadFromJSON resolves for loads[k]: clear() removes every object (one
\* object:removed each) and unsets the background image, add(...enlivened) raises one
\* object:added per object, then the serialized canvas properties are set; the
\* handler continues with setHistoryIndex(index) and the finally block.
RestoreDone(k) ==
    /\ Idle
    /\ LET l == loads[k]
           restored == l.json.objects
           events == FireAll(RemovalScenes(<<>>, objs, FALSE), backgroundImage)
                        \o FireAll(Repeat(restored, Len(restored)), FALSE)
       IN /\ objs' = restored
          /\ backgroundImage' = l.json.backgroundImage
          /\ pending' = events \o <<SetIndexUpd(l.index), SetProcUpd(FALSE)>>
          /\ nMut' = Count(Len(objs) + Len(restored))
          /\ lastCall' = Call(l.op, "restored", l.from)
    /\ loads' = RemoveAt(loads, k)
    /\ UNCHANGED <<canvasSet, bgLoad, history, historyIndex, isHistoryProcessing, undone>>
    /\ UNCHANGED steps
    /\ UNCHANGED clampVars
    /\ UNCHANGED sceneVars

\* A handler whose release of the guard is written after the await instead of in
\* `finally`: a rejection skips it. C28 must tell it from the handler's.
RestoreFailedWithoutFinally(k) ==
    /\ Idle
    /\ NeedsPixels(loads[k].json)
    /\ pending' = <<>>
    /\ lastCall' = Call(loads[k].op, "rejected", loads[k].from)
    /\ loads' = RemoveAt(loads, k)
    /\ UNCHANGED <<canvasSet, objs, backgroundImage, bgLoad, history, historyIndex,
                   isHistoryProcessing, nMut, undone>>
    /\ UNCHANGED steps
    /\ UNCHANGED clampVars
    /\ UNCHANGED sceneVars

\* canvas.loadFromJSON rejects for loads[k] (a pixel source of the snapshot fails to
\* load): nothing has been cleared yet; the handler's finally block runs and the
\* rejection propagates to the caller.
RestoreFailed(k) ==
    /\ Idle
    /\ NeedsPixels(loads[k].json)
    /\ pending' = <<SetProcUpd(FALSE)>>
    /\ lastCall' = Call(loads[k].op, "rejected", loads[k].from)
    /\ loads' = RemoveAt(loads, k)
    /\ UNCHANGED <<canvasSet, objs, backgroundImage, bgLoad, history, historyIndex,
                   isHistoryProcessing, nMut, undone>>
    /\ UNCHANGED steps
    /\ UNCHANGED clampVars
    /\ UNCHANGED sceneVars

Next ==
    \/ Render
    \/ BgLoaded
    \/ BgFailed
    \/ \E t \in ObjTypes : AddObject(t)
    \/ \E i \in 1..Len(objs) : DeleteObject(i)
    \/ \E i \in 1..Len(objs) : ModifyObject(i)
    \/ \E incoming \in Incoming : ImportJSON(incoming)
    \/ handleUndo
    \/ handleRedo
    \/ \E k \in 1..Len(loads) : RestoreDone(k)
    \/ \E k \in 1..Len(loads) : RestoreFailed(k)

Spec == Init /\ [][Next]_vars

\* The editor with the scheduling the runtime gives: React applies queued state
\* updates, and every loadFromJSON promise settles (it resolves or rejects).
SpecLive ==
    /\ Init /\ [][Next]_vars
    /\ WF_vars(Render)
    /\ WF_vars(\E k \in 1..Len(loads) : RestoreDone(k) \/ RestoreFailed(k))

(***************************************************************************)
(* Strict clamp: the object:moving listener (DesignEditor.tsx:104-126)     *)
(***************************************************************************)
\* (obj.width || 0) * (obj.scaleX || 1)
objWidth(o) == (IF o.width = 0 THEN 0 ELSE o.width) * (IF o.scaleX = 0 THEN 1 ELSE o.scaleX)

\* (obj.height || 0) * (obj.scaleY || 1)
objHeight(o) == (IF o.height = 0 THEN 0 ELSE o.height) * (IF o.scaleY = 0 THEN 1 ELSE o.scaleY)

\* A faulty clamp of one axis that leaves out the far-edge `if`; C9 must tell it from
\* the handler's.
ClampNearEdgeOnly(pos, size, lo, extent) == IF pos < lo THEN lo ELSE pos

\* The two `if`s of one axis, in the handler's order: first the near edge (left / top),
\* then the far edge (right / bottom), which reads the position the first `if` left.
ClampAxis(pos, size, lo, extent) ==
    LET p1 == IF pos < lo THEN lo ELSE pos
    IN IF p1 + size > lo + extent THEN lo + extent - size ELSE p1

\* The listener's body for target o and editable area a.
onObjectMoving(o, a) ==
    IF IsMarker(o) THEN o
    ELSE [o EXCEPT !.left = ClampAxis(o.left, objWidth(o), a.left, a.width),
                   !.top = ClampAxis(o.top, objHeight(o), a.top, a.height)]

\* The valid editable areas of the model: positive width and height.
Areas ==
    [left : {1}, top : {2}, width : 1..MaxArea, height : 1..MaxArea]

\* The positions a drag may put an object at, inside or outside the canvas.
Positions == -1..MaxPos

\* The draggable objects of the model, as they are before their first drag.
Draggables ==
    [name : {""}, left : {1}, top : {1}, width : 1..MaxDim, height : 1..MaxDim,
     scaleX : 1..MaxScale, scaleY : 1..MaxScale, dragLeft : {1}, dragTop : {1},
     moved : {FALSE}]

InitClamp ==
    /\ canvasSet = FALSE
    /\ objs = <<>>
    /\ backgroundImage = FALSE
    /\ bgLoad = "pending"
    /\ history = <<>>
    /\ historyIndex = -1
    /\ isHistoryProcessing = FALSE
    /\ pending = <<SetCanvasUpd>>
    /\ loads = <<>>
    /\ lastCall = Call("mount", "ok", -1)
    /\ nMut = 0
    /\ steps = 0
    /\ undone = FALSE
    /\ area \in Areas
    /\ mobj \in Draggables
    /\ cv = EmptyCanvas
    /\ fh = NoFreeHistory
    /\ imgLoads = <<>>
    /\ ids = <<>>
    /\ drawer = ClosedDrawer
    /\ obs = NoObs

\* One mouse move of a drag: fabric puts the target at (p, q) and raises
\* object:moving; the listener clamps it.
ObjectMoving(p, q) ==
    /\ mobj' = onObjectMoving([mobj EXCEPT !.left = p, !.top = q, !.dragLeft = p,
                                           !.dragTop = q, !.moved = TRUE], area)
    /\ UNCHANGED area
    /\ UNCHANGED editorVars
    /\ UNCHANGED sceneVars

NextClamp == \E p \in Positions, q \in Positions : ObjectMoving(p, q)

SpecClamp == InitClamp /\ [][NextClamp]_vars

(***************************************************************************)
(* The canvas utilities (utils/canvasUtils) and the panels' commands,     *)
(* acting on one fabric canvas of the strict-clamp editor.                *)
(***************************************************************************)
\* Bounds of the scene model.
MaxSceneObjs == 2

Fills == {"#000000", "#ff0000"}

\* A canvas object: `name` and `selectable` are the custom / non-serialized
\* properties, `type`, `visible` and `fill` the ones toObject() serializes. An object
\* is identified by its place in the canvas's list; `active` of a canvas is the place
\* of the active object, 0 when there is none.
CanvasObj(type, name, selectable, visible, fill) ==
    [type |-> type, name |-> name, selectable |-> selectable, visible |-> visible,
     fill |-> fill]

\* An overlay created without `selectable: false`.
SelectableOverlayObj == CanvasObj("rect", MarkerName, TRUE, TRUE, "transparent")

\* createEditableAreaOverlay as a canvas object.
OverlayObj == CanvasObj("rect", MarkerName, FALSE, TRUE, "transparent")

\* The first index of s that satisfies Test, 0 when there is none
\* (Array.prototype.find / indexOf).
FindIndex(s, Test(_)) ==
    IF \E i \in 1..Len(s) : Test(s[i])
    THEN CHOOSE i \in 1..Len(s) : Test(s[i]) /\ \A j \in 1..(i - 1) : ~Test(s[j])
    ELSE 0

\* canvas.getObjects().find(obj => obj.name === 'editableAreaOverlay')
FindOverlay(s) == FindIndex(s, IsMarker)

\* canvas.remove(object) of the object at place i: the object leaves the list; an
\* active object that is removed is deselected.
CanvasRemove(c, i) ==
    IF i = 0 THEN c
    ELSE [c EXCEPT !.objs = RemoveAt(c.objs, i),
                   !.active = IF c.active = i THEN 0
                              ELSE IF c.active > i THEN c.active - 1 ELSE c.active]

\* The object at place i taken out and put back at place j.
MoveTo(s, i, j) ==
    LET rest == RemoveAt(s, i)
    IN SubSeq(rest, 1, j - 1) \o <<s[i]>> \o SubSeq(rest, j, Len(rest))

\* The place, after MoveTo(s, i, j), of the object that was at place a.
PlaceAfterMove(a, i, j) ==
    IF a = i THEN j
    ELSE IF i < a /\ a <= j THEN a - 1
    ELSE IF j <= a /\ a < i THEN a + 1
    ELSE a

CanvasMove(c, i, j) ==
    IF i = 0 THEN c
    ELSE [c EXCEPT !.objs = MoveTo(c.objs, i, j), !.active = PlaceAfterMove(c.active, i, j)]

\* canvas.bringObjectToFront / sendObjectToBack / bringObjectForward /
\* sendObjectBackwards of the object at place i (the list runs back to front).
bringObjectToFront(c, i) == CanvasMove(c, i, Len(c.objs))

sendObjectToBack(c, i) == CanvasMove(c, i, 1)

bringObjectForward(c, i) == IF i = Len(c.objs) THEN c ELSE CanvasMove(c, i, i + 1)

sendObjectBackwards(c, i) == IF i <= 1 THEN c ELSE CanvasMove(c, i, i - 1)

(***************************************************************************)
(* Serialization                                                           *)
(***************************************************************************)
\* object.toObject(propertiesToInclude): type, visible and fill are serialized by
\* default; name and selectable only when the caller lists them. An absent name reads
\* as "" and an absent selectable as the default TRUE.
toObject(o, props) ==
    [type |-> o.type, visible |-> o.visible, fill |-> o.fill,
     name |-> IF "name" \in props THEN o.name ELSE "",
     selectable |-> IF "selectable" \in props THEN o.selectable ELSE TRUE]

\* canvas.toJSON(propertiesToInclude) as parsed back by JSON.parse.
canvasToJSON(c, props) ==
    [kind |-> "doc", backgroundImage |-> c.bg,
     objects |-> [i \in 1..Len(c.objs) |-> toObject(c.objs[i], props)]]

\* exportCanvasToJSON: canvas.toJSON() without properties to include, the background
\* image deleted, the entries named 'editableAreaOverlay' filtered out.
exportCanvasToJSON(c) ==
    LET json == canvasToJSON(c, {})
    IN [json EXCEPT !.backgroundImage = "none",
                    !.objects = SelectSeq(json.objects, LAMBDA o : o.name # MarkerName)]

\* The object kinds fabric.util.enlivenObjects can reconstruct.
KnownTypes == {"textbox", "image", "rect"}

\* fabric.util.enlivenObjects: one new canvas object per entry.
enlivenObjects(entries) ==
    [i \in 1..Len(entries) |->
        CanvasObj(entries[i].type, entries[i].name, entries[i].selectable,
                  entries[i].visible, entries[i].fill)]

\* The places of s whose object satisfies Test, in order.
PlacesOf(s, Test(_)) == SelectSeq([i \in 1..Len(s) |-> i], LAMBDA i : Test(s[i]))

\* The removal loop that skips nothing.
ExistingAllKept(s) == [i \in 1..Len(s) |-> i]

\* The places of the existing objects the removal loop of importCanvasFromJSON leaves
\* on the canvas: those named 'editableAreaOverlay'.
ExistingKept(s) == PlacesOf(s, IsMarker)

\* importCanvasFromJSON(canvas, text): the canvas it leaves and how its promise ends.
\* Every object but the overlay is removed, then every enlivened object that is not
\* named as the overlay is added.
importCanvasFromJSON(c, text) ==
    IF text.kind = "garbage"
    THEN [canvas |-> c, res |-> "rejected"]          \* JSON.parse throws, catch rethrows
    ELSE IF text.kind # "doc"
    THEN [canvas |-> c, res |-> "ok"]                \* no objects array: plain return
    ELSE IF \E i \in 1..Len(text.objects) : text.objects[i].type \notin KnownTypes
    THEN [canvas |-> c, res |-> "rejected"]          \* enlivenObjects rejects
    ELSE LET keptPlaces == ExistingKept(c.objs)
             kept == [i \in 1..Len(keptPlaces) |-> c.objs[keptPlaces[i]]]
         IN [canvas |->
                [c EXCEPT !.objs = kept \o NonMarker(enlivenObjects(text.objects)),
                          !.active = FindIndex(keptPlaces, LAMBDA p : p = c.active)],
             res |-> "ok"]

(***************************************************************************)
(* Editable-area export (PNG, TIFF, PDF, SVG; with or without background)  *)
(***************************************************************************)
ExportKinds == {"PNG", "TIFF", "PDF", "SVG", "PNGbg", "TIFFbg", "PDFbg", "SVGbg"}

\* The exports without background clear canvas.backgroundImage and the fill.
HidesBackground(kind) == kind \in {"PNG", "TIFF", "PDF", "SVG"}

SetVisible(s, i, v) == IF i = 0 THEN s ELSE [s EXCEPT ![i].visible = v]

\* The statements before `try`: deselect, hide the mockup and the fill when the export
\* is without background, hide the overlay found by name.
PrepareExport(c, kind) ==
    LET d == [c EXCEPT !.active = 0]
        e == IF HidesBackground(kind)
             THEN [d EXCEPT !.bg = "none", !.bgColor = "transparent"] ELSE d
    IN [e EXCEPT !.objs = SetVisible(e.objs, FindOverlay(e.objs), FALSE)]

\* The `finally` block: the saved background image, fill and overlay visibility of the
\* canvas `saved` are written back to c.
RestoreExport(c, saved, kind) ==
    LET i == FindOverlay(c.objs)
        originalOverlayVisible ==
            IF FindOverlay(saved.objs) = 0 THEN TRUE
            ELSE saved.objs[FindOverlay(saved.objs)].visible
        d == IF HidesBackground(kind)
             THEN [c EXCEPT !.bg = saved.bg, !.bgColor = saved.bgColor] ELSE c
    IN [d EXCEPT !.objs = SetVisible(d.objs, i, originalOverlayVisible)]

\* The restore written after the `try` block instead of in `finally`: a throw skips it.
AfterTryOnSuccessOnly(c, saved, kind, threw) ==
    IF threw THEN c ELSE RestoreExport(c, saved, kind)

\* What runs after the `try` block has ended, normally or by a throw of toDataURL,
\* toSVG, jsPDF or saveAs.
AfterTry(c, saved, kind, threw) == RestoreExport(c, saved, kind)

\* exportEditableAreaAs<kind>: the canvas at the rasterization and the canvas left.
exportEditableArea(c, kind, threw) ==
    LET mid == PrepareExport(c, kind)
    IN [mid |-> mid, canvas |-> AfterTry(mid, c, kind, threw),
        res |-> IF threw THEN "threw" ELSE "ok"]

(***************************************************************************)
(* The commands of the scene model (strict editor and its panels)          *)
(***************************************************************************)
Places(c) == 1..Len(c.objs)

\* The canvases the editor hands to the utilities when a session starts: the mockup
\* has loaded (overlay added and sent to the back) or it has not.
LoadedCanvas == [EmptyCanvas EXCEPT !.objs = <<OverlayObj>>, !.bg = "mockup"]

InitScene ==
    /\ canvasSet = FALSE
    /\ objs = <<>>
    /\ backgroundImage = FALSE
    /\ bgLoad = "pending"
    /\ history = <<>>
    /\ historyIndex = -1
    /\ isHistoryProcessing = FALSE
    /\ pending = <<SetCanvasUpd>>
    /\ loads = <<>>
    /\ lastCall = Call("mount", "ok", -1)
    /\ nMut = 0
    /\ steps = 0
    /\ undone = FALSE
    /\ area = DefaultArea
    /\ mobj = DefaultObj
    /\ cv \in {LoadedCanvas, EmptyCanvas}
    /\ obs = NoObs
    /\ fh = NoFreeHistory
    /\ imgLoads = <<>>
    /\ ids = <<>>
    /\ drawer = ClosedDrawer

\* A command that changes the canvas from cv to c and produces nothing else.
Command(op, arg, c) ==
    /\ cv' = c
    /\ obs' = Observation(op, arg, EmptyCanvas, NoDoc, "ok")
    /\ UNCHANGED fh
    /\ UNCHANGED editorVars
    /\ UNCHANGED toolVars
    /\ UNCHANGED clampVars

\* addTextToCanvas / addImageToCanvas: canvas.add, canvas.setActiveObject.
CanvasAdd(c, type, fill) ==
    [c EXCEPT !.objs = Append(c.objs, CanvasObj(type, "", TRUE, TRUE, fill)),
              !.active = Len(c.objs) + 1]

SceneAdd(type, fill) ==
    /\ Len(NonMarker(cv.objs)) < MaxSceneObjs
    /\ Command("add", "", CanvasAdd(cv, type, fill))

\* A click on an object of the canvas: fabric selects selectable, visible objects only.
SelectObject(i) ==
    /\ cv.objs[i].selectable /\ cv.objs[i].visible
    /\ cv.active # i
    /\ Command("select", "", [cv EXCEPT !.active = i])

\* LayerPanel.handleLayerClick: the layer list holds every object but the overlay.
handleLayerClick(i) ==
    /\ ~IsMarker(cv.objs[i])
    /\ cv.active # i
    /\ Command("select", "", [cv EXCEPT !.active = i])

\* handleKeyDown, Delete / Backspace: the overlay and the mockup are left alone.
DeleteKey(c) ==
    IF c.objs[c.active].name \in {MarkerName, "productMockup"} THEN c
    ELSE [CanvasRemove(c, c.active) EXCEPT !.active = 0]

KeyDelete ==
    /\ cv.active # 0
    /\ Command("delete", "key", DeleteKey(cv))

\* handleKeyDown, Ctrl/Cmd+X: clone to the clipboard, then canvas.remove(activeObject).
KeyCut ==
    /\ cv.active # 0
    /\ Command("delete", "cut", CanvasRemove(cv, cv.active))

\* PropertiesPanel.handleDelete: canvas.remove(selectedObject), discardActiveObject.
PanelDelete ==
    /\ cv.active # 0
    /\ Command("delete", "properties", [CanvasRemove(cv, cv.active) EXCEPT !.active = 0])

\* LayerPanel.handleDeleteLayer
handleDeleteLayer(i) ==
    /\ ~IsMarker(cv.objs[i])
    /\ Command("delete", "layer", CanvasRemove(cv, i))

LayerActions == {"bringToFront", "sendToBack", "bringForward", "sendBackward"}

\* PropertiesPanel.handleLayerAction on the object at place i: only sendToBack puts
\* the overlay and the mockup back below it.
LayerAction(c, i, action) ==
    CASE action = "bringToFront" -> bringObjectToFront(c, i)
      [] action = "sendToBack" ->
            LET t == sendObjectToBack(c, i)
                u == sendObjectToBack(t, FindOverlay(t.objs))
            IN sendObjectToBack(u, FindIndex(u.objs, LAMBDA o : o.name = "productMockup"))
      [] action = "bringForward" -> bringObjectForward(c, i)
      [] action = "sendBackward" -> sendObjectBackwards(c, i)

handleLayerAction(action) ==
    /\ cv.active # 0
    /\ Command("reorder", action, LayerAction(cv, cv.active, action))

\* LayerPanel.handleMoveLayer: the index is taken among the objects but the overlay.
MoveLayer(c, i, direction) ==
    LET currentIndex == Len(NonMarker(SubSeq(c.objs, 1, i)))
    IN IF direction = "up" /\ currentIndex < Len(NonMarker(c.objs))
       THEN bringObjectForward(c, i)
       ELSE IF direction = "down" /\ currentIndex > 1 THEN sendObjectBackwards(c, i)
       ELSE c

handleMoveLayer(i, direction) ==
    /\ ~IsMarker(cv.objs[i])
    /\ Command("reorder", direction, MoveLayer(cv, i, direction))

\* handleExportEditablePNG, handleExportTIFF, handleExportPDF, ...: one editable-area
\* export; `threw` says whether the rasterization, the encoder or saveAs threw.
ExportEditableArea(kind, threw) ==
    LET r == exportEditableArea(cv, kind, threw)
    IN /\ cv' = r.canvas
       /\ obs' = Observation("export",
                              IF HidesBackground(kind) THEN "withoutBackground"
                              ELSE "withBackground",
                              r.mid, NoDoc, r.res)
       /\ UNCHANGED fh
       /\ UNCHANGED editorVars
       /\ UNCHANGED toolVars
       /\ UNCHANGED clampVars

\* handleExportJSON: exportCanvasToJSON, then downloadJSON.
ExportJSON ==
    /\ cv' = cv
    /\ obs' = Observation("exportJSON", "", EmptyCanvas, exportCanvasToJSON(cv), "ok")
    /\ UNCHANGED fh
    /\ UNCHANGED editorVars
    /\ UNCHANGED toolVars
    /\ UNCHANGED clampVars

Garbage == [kind |-> "garbage", backgroundImage |-> "none", objects |-> <<>>]
NoObjectsArray == [kind |-> "noObjects", backgroundImage |-> "none", objects |-> <<>>]
Entry(type, name) ==
    [type |-> type, visible |-> TRUE, fill |-> "#000000", name |-> name,
     selectable |-> TRUE]
Doc(entries) == [kind |-> "doc", backgroundImage |-> "none", objects |-> entries]

\* The files and templates a user may pick: text that is not JSON, JSON without an
\* objects array, a document with an entry fabric cannot reconstruct, a template, a
\* document that holds an overlay entry, and the file the last ExportJSON downloaded.
ImportTexts ==
    {Garbage, NoObjectsArray, Doc(<<Entry("textbox", ""), Entry("bogus", "")>>),
     Doc(<<Entry("textbox", "")>>),
     Doc(<<Entry("rect", MarkerName), Entry("image", "")>>)}
    \cup (IF obs.op = "exportJSON" THEN {obs.out} ELSE {})

\* handleFileSelect / handleLoadTemplate: importCanvasFromJSON(canvas, text).
ImportFile(text) ==
    LET r == importCanvasFromJSON(cv, text)
    IN /\ Len(NonMarker(r.canvas.objs)) <= MaxSceneObjs
       /\ cv' = r.canvas
       /\ obs' = Observation("import",
                              IF NonMarker(cv.objs) = <<>> THEN "overBlank" ELSE "overDesign",
                              EmptyCanvas, text, r.res)
       /\ UNCHANGED fh
       /\ UNCHANGED editorVars
       /\ UNCHANGED toolVars
       /\ UNCHANGED clampVars

NextScene ==
    \/ \E t \in ObjTypes, f \in Fills : SceneAdd(t, f)
    \/ \E i \in Places(cv) : SelectObject(i)
    \/ \E i \in Places(cv) : handleLayerClick(i)
    \/ KeyDelete
    \/ KeyCut
    \/ PanelDelete
    \/ \E i \in Places(cv) : handleDeleteLayer(i)
    \/ \E a \in LayerActions : handleLayerAction(a)
    \/ \E i \in Places(cv), d \in {"up", "down"} : handleMoveLayer(i, d)
    \/ \E k \in ExportKinds, threw \in BOOLEAN : ExportEditableArea(k, threw)
    \/ ExportJSON
    \/ \E text \in ImportTexts : ImportFile(text)

SpecScene == InitScene /\ [][NextScene]_vars

\* Text that is not valid JSON, JSON without an objects array, or a document with an
\* entry that cannot be reconstructed.
Corrupt(text) ==
    \/ text.kind # "doc"
    \/ \E i \in 1..Len(text.objects) : text.objects[i].type \notin KnownTypes

(***************************************************************************)
(* The free-placement editor: the overlay is a guide kept above the        *)
(* objects; saveHistory serializes with canvas.toJSON().                    *)
(***************************************************************************)
MaxFreeObjs == 1
MaxFreeHistory == 2

\* The dashed frame of the editable area as it is drawn: the serialized attributes
\* createEditableAreaOverlay alone gives an object (transparent rect).
DrawnAsOverlay(o) == o.type = "rect" /\ o.fill = "transparent"

\* handleObjectModified, second half: the overlay found by name is brought to front.
Promote(c) == bringObjectToFront(c, FindOverlay(c.objs))

\* A synchronous run of a handler: the canvas it has reached and the snapshots the
\* listening saveHistory has serialized so far.
Run(c) == [canvas |-> c, jsons |-> <<>>]

\* One object:added / object:removed / object:modified event raised in a run:
\* handleObjectModified = saveHistory(), then the overlay to front.
handleObjectModified(run) ==
    [canvas |-> Promote(run.canvas),
     jsons |-> Append(run.jsons, canvasToJSON(run.canvas, {}))]

\* The setHistory updaters of one run, all closed over the rendered historyIndex h.
RECURSIVE SaveEntries(_, _, _)
SaveEntries(entries, h, jsons) ==
    IF jsons = <<>> THEN entries
    ELSE SaveEntries(Append(Slice0(entries, h + 1), Head(jsons)), h, Tail(jsons))

\* history and historyIndex after React has applied the updaters of a run.
FreeSave(f, jsons) ==
    [entries |-> SaveEntries(f.entries, f.index, jsons), index |-> f.index + Len(jsons)]

\* A snapshot whose reconstruction has to load pixels: loadFromJSON then resolves in a
\* later task, after the listeners closed over isHistoryProcessing = true are installed.
FreeNeedsPixels(json) ==
    json.backgroundImage # "none"
        \/ \E i \in 1..Len(json.objects) : json.objects[i].type = "image"

InitFree ==
    /\ canvasSet = FALSE
    /\ objs = <<>>
    /\ backgroundImage = FALSE
    /\ bgLoad = "pending"
    /\ history = <<>>
    /\ historyIndex = -1
    /\ isHistoryProcessing = FALSE
    /\ pending = <<SetCanvasUpd>>
    /\ loads = <<>>
    /\ lastCall = Call("mount", "ok", -1)
    /\ nMut = 0
    /\ steps = 0
    /\ undone = FALSE
    /\ area = DefaultArea
    /\ mobj = DefaultObj
    /\ cv = EmptyCanvas
    /\ obs = NoObs
    /\ fh = NoFreeHistory
    /\ imgLoads = <<>>
    /\ ids = <<>>
    /\ drawer = ClosedDrawer

\* A handler of the free-placement editor that ends with the run `run`.
FreeCommand(op, arg, run) ==
    /\ cv' = run.canvas
    /\ fh' = FreeSave(fh, run.jsons)
    /\ obs' = Observation(op, arg, EmptyCanvas, NoDoc, "ok")
    /\ UNCHANGED editorVars
    /\ UNCHANGED toolVars
    /\ UNCHANGED clampVars

\* setCanvas has been rendered: the panels, the toolbar and the listeners exist.
FreeReady == fh.index >= 0

\* A handler that records snapshots may run within the bounds of the model.
FreeRoom == FreeReady /\ fh.index < MaxFreeHistory /\ Len(fh.entries) <= MaxFreeHistory

\* loadBackground, then the history effect's first run (historyIndex === -1 saves the
\* baseline): with the mockup loaded the overlay is added and brought to front before
\* setCanvas; in the catch branch the canvas is left as created.
loadBackground(loaded) ==
    /\ fh.index = -1
    /\ cv' = (IF loaded
              THEN Promote([cv EXCEPT !.bg = "mockup", !.objs = Append(cv.objs, OverlayObj)])
              ELSE cv)
    /\ fh' = FreeSave([fh EXCEPT !.index = -1], <<canvasToJSON(cv', {})>>)
    /\ obs' = Observation("load", "", EmptyCanvas, NoDoc, IF loaded THEN "ok" ELSE "threw")
    /\ UNCHANGED editorVars
    /\ UNCHANGED toolVars
    /\ UNCHANGED clampVars

\* Toolbar: addTextToCanvas / addImageToCanvas: canvas.add raises object:added, then
\* canvas.setActiveObject.
FreeAdd(type) ==
    /\ FreeRoom
    /\ Len(cv.objs) <= MaxFreeObjs
    /\ FreeCommand("add", "", handleObjectModified(Run(CanvasAdd(cv, type, "#000000"))))

\* handleGenerateAI: applyAIDesignToCanvas adds the image (object:added) and selects
\* it, then the handler brings the overlay to front once more.
FreeApplyAI ==
    /\ FreeRoom
    /\ Len(cv.objs) <= MaxFreeObjs
    /\ LET run == handleObjectModified(Run(CanvasAdd(cv, "image", "#000000")))
       IN FreeCommand("ai", "", [run EXCEPT !.canvas = Promote(run.canvas)])

\* A click on an object of the canvas.
FreeSelect(i) ==
    /\ FreeReady
    /\ cv.objs[i].selectable /\ cv.objs[i].visible
    /\ cv.active # i
    /\ FreeCommand("select", "", Run([cv EXCEPT !.active = i]))

\* handleKeyDown, Delete / Backspace: canvas.remove raises object:removed.
FreeKeyDelete ==
    /\ FreeRoom
    /\ cv.active # 0
    /\ FreeCommand("delete", "key",
                   IF cv.objs[cv.active].name \in {MarkerName, "productMockup"} THEN Run(cv)
                   ELSE LET run == handleObjectModified(Run(CanvasRemove(cv, cv.active)))
                        IN [run EXCEPT !.canvas.active = 0])

\* The active object has been dragged or resized on the canvas: object:modified.
FreeModify ==
    /\ FreeRoom
    /\ cv.active # 0
    /\ FreeCommand("modify", "", handleObjectModified(Run(cv)))

\* PropertiesPanel.handleLayerAction: the reorder, then canvas.fire('object:modified').
FreeLayerAction(action) ==
    /\ FreeRoom
    /\ cv.active # 0
    /\ FreeCommand("reorder", action,
                   handleObjectModified(Run(LayerAction(cv, cv.active, action))))

\* Toolbar.handleColorChange: activeObject.set('fill', value), canvas.renderAll(); the
\* handler fires no event.
handleColorChange(fill) ==
    /\ FreeReady
    /\ cv.active # 0
    /\ cv.objs[cv.active].fill # fill
    /\ FreeCommand("color", "", Run([cv EXCEPT !.objs[cv.active].fill = fill]))

\* LayerPanel.handleToggleVisibility: set('visible', !layer.visible), renderAll,
\* updateLayers; the handler fires no event.
handleToggleVisibility(i) ==
    /\ FreeReady
    /\ ~IsMarker(cv.objs[i])
    /\ FreeCommand("visibility", "", Run([cv EXCEPT !.objs[i].visible = ~cv.objs[i].visible]))

\* LayerPanel.handleMoveLayer: the reorder raises no event.
FreeMoveLayer(i, direction) ==
    /\ FreeReady
    /\ ~IsMarker(cv.objs[i])
    /\ FreeCommand("reorder", direction, Run(MoveLayer(cv, i, direction)))

\* The removal loop of importCanvasFromJSON with the listeners attached: each
\* canvas.remove raises object:removed.
RECURSIVE RemoveRun(_)
RemoveRun(run) ==
    LET i == FindIndex(run.canvas.objs, LAMBDA o : ~IsMarker(o))
    IN IF i = 0 THEN run
       ELSE RemoveRun(handleObjectModified(
                [run EXCEPT !.canvas = CanvasRemove(run.canvas, i)]))

\* The addition loop: each canvas.add raises object:added.
RECURSIVE AddRun(_, _)
AddRun(run, new) ==
    IF new = <<>> THEN run
    ELSE AddRun(handleObjectModified(
                    [run EXCEPT !.canvas.objs = Append(run.canvas.objs, Head(new))]),
                Tail(new))

\* importCanvasFromJSON(canvas, text) in the free-placement editor.
FreeImportRun(c, text) ==
    IF Corrupt(text) THEN Run(c)
    ELSE AddRun(RemoveRun(Run(c)), NonMarker(enlivenObjects(text.objects)))

FreeImportTexts == {Garbage, NoObjectsArray, Doc(<<Entry("textbox", "")>>)}

\* handleFileSelect / handleLoadTemplate
FreeImport(text) ==
    LET run == FreeImportRun(cv, text)
    IN /\ FreeRoom
       /\ cv' = run.canvas
       /\ fh' = FreeSave(fh, run.jsons)
       /\ obs' = Observation("import", "", EmptyCanvas, text,
                              importCanvasFromJSON(cv, text).res)
       /\ UNCHANGED editorVars
       /\ UNCHANGED toolVars
       /\ UNCHANGED clampVars

\* canvas.loadFromJSON(json): the canvas it leaves.
loadFromJSON(c, json) ==
    [c EXCEPT !.objs = enlivenObjects(json.objects), !.bg = json.backgroundImage,
              !.active = 0]

\* The scenes after each canvas.remove of clear(), first object first.
RECURSIVE ClearScenes(_)
ClearScenes(c) ==
    IF c.objs = <<>> THEN <<>>
    ELSE LET d == CanvasRemove(c, 1) IN <<canvasToJSON(d, {})>> \o ClearScenes(d)

\* The snapshots the listeners record while loadFromJSON runs: none when they were
\* re-installed with isHistoryProcessing = true before it resolved; else one per
\* object:removed of clear() and one per object:added, the latter raised after all
\* objects are on the canvas.
RestoreJsons(c, json) ==
    IF FreeNeedsPixels(json) THEN <<>>
    ELSE ClearScenes(c)
         \o [i \in 1..Len(json.objects) |-> canvasToJSON(loadFromJSON(c, json), {})]

\* handleUndo / handleRedo towards the index `target`: nothing when the entry is
\* missing; else loadFromJSON, every object:added followed by the overlay lookup, and
\* setHistoryIndex(target).
FreeRestore(op, target) ==
    IF target + 1 > Len(fh.entries)
    THEN /\ cv' = cv
         /\ fh' = fh
         /\ obs' = Observation(op, "", EmptyCanvas, NoDoc, "noop")
    ELSE LET json == fh.entries[target + 1]
         IN /\ cv' = Promote(loadFromJSON(cv, json))
            /\ fh' = [entries |-> SaveEntries(fh.entries, fh.index, RestoreJsons(cv, json)),
                      index |-> target]
            /\ obs' = Observation(op, "", EmptyCanvas, json, "ok")

FreeUndo ==
    /\ FreeReady
    /\ Len(fh.entries) <= MaxFreeHistory + 1
    /\ IF fh.index <= 0
       THEN cv' = cv /\ fh' = fh /\ obs' = Observation("undo", "", EmptyCanvas, NoDoc, "noop")
       ELSE FreeRestore("undo", fh.index - 1)
    /\ UNCHANGED editorVars
    /\ UNCHANGED toolVars
    /\ UNCHANGED clampVars

FreeRedo ==
    /\ FreeReady
    /\ Len(fh.entries) <= MaxFreeHistory + 1
    /\ IF fh.index >= Len(fh.entries) - 1
       THEN cv' = cv /\ fh' = fh /\ obs' = Observation("redo", "", EmptyCanvas, NoDoc, "noop")
       ELSE FreeRestore("redo", fh.index + 1)
    /\ UNCHANGED editorVars
    /\ UNCHANGED toolVars
    /\ UNCHANGED clampVars

\* handleExport: one editable-area export of the export drawer.
handleExport(kind, threw) ==
    LET r == exportEditableArea(cv, kind, threw)
    IN /\ FreeReady
       /\ cv' = r.canvas
       /\ obs' = Observation("export",
                              IF HidesBackground(kind) THEN "withoutBackground"
                              ELSE "withBackground",
                              r.mid, NoDoc, r.res)
       /\ UNCHANGED fh
       /\ UNCHANGED editorVars
       /\ UNCHANGED toolVars
       /\ UNCHANGED clampVars

\* The formats of the export drawer (JPG uses the PNG functions).
DrawerKinds == {"PNG", "PDF", "SVG", "PNGbg", "PDFbg", "SVGbg"}

NextFree ==
    \/ \E loaded \in BOOLEAN : loadBackground(loaded)
    \/ \E t \in ObjTypes : FreeAdd(t)
    \/ FreeApplyAI
    \/ \E i \in Places(cv) : FreeSelect(i)
    \/ FreeKeyDelete
    \/ FreeModify
    \/ \E a \in LayerActions : FreeLayerAction(a)
    \/ \E i \in Places(cv), d \in {"up", "down"} : FreeMoveLayer(i, d)
    \/ \E text \in FreeImportTexts : FreeImport(text)
    \/ FreeUndo
    \/ FreeRedo
    \/ \E k \in DrawerKinds, threw \in BOOLEAN : handleExport(k, threw)

SpecFree == InitFree /\ [][NextFree]_vars

\* The free-placement editor used through the toolbar, the keyboard and the layer
\* panel only: the handlers that change an object in place are added to the handlers
\* that add, remove and reorder.
NextPanels ==
    \/ loadBackground(TRUE)
    \/ FreeAdd("textbox")
    \/ FreeKeyDelete
    \/ \E i \in Places(cv), d \in {"up", "down"} : FreeMoveLayer(i, d)
    \/ \E f \in Fills : handleColorChange(f)
    \/ \E i \in Places(cv) : handleToggleVisibility(i)
    \/ FreeUndo
SpecPanels == InitFree /\ [][NextPanels]_vars

(***************************************************************************)
(* The toolbar's image requests and the layer panel's list                 *)
(***************************************************************************)
MaxToolObjs == 3

\* The pixel sources a user picks: an uploaded file, a clipart URL.
ImageUrls == {"file", "clipart"}

\* (obj as any).id while updateLayers has not assigned one; an assigned id
\* `layer-${index}` is modelled by its index.
NoId == -1

\* LayerPanel.updateLayers: every object but the overlay that has no id yet gets
\* `layer-${index}`, its index among the objects but the overlay; an id once set stays.
updateLayers(c, idseq) ==
    [i \in 1..Len(idseq) |->
        IF IsMarker(c.objs[i]) \/ idseq[i] # NoId THEN idseq[i]
        ELSE Len(NonMarker(SubSeq(c.objs, 1, i))) - 1]

InitToolbar ==
    /\ canvasSet = FALSE
    /\ objs = <<>>
    /\ backgroundImage = FALSE
    /\ bgLoad = "pending"
    /\ history = <<>>
    /\ historyIndex = -1
    /\ isHistoryProcessing = FALSE
    /\ pending = <<SetCanvasUpd>>
    /\ loads = <<>>
    /\ lastCall = Call("mount", "ok", -1)
    /\ nMut = 0
    /\ steps = 0
    /\ undone = FALSE
    /\ area = DefaultArea
    /\ mobj = DefaultObj
    /\ cv = LoadedCanvas
    /\ obs = NoObs
    /\ fh = NoFreeHistory
    /\ imgLoads = <<>>
    /\ ids = <<NoId>>
    /\ drawer = ClosedDrawer

\* A handler of the toolbar model: the canvas, the ids and the loads it leaves.
ToolCommand(op, arg, c, idseq, inflight) ==
    /\ cv' = c
    /\ ids' = idseq
    /\ imgLoads' = inflight
    /\ obs' = Observation(op, arg, EmptyCanvas, NoDoc, "ok")
    /\ UNCHANGED <<fh, drawer>>
    /\ UNCHANGED editorVars
    /\ UNCHANGED clampVars

\* The model has room for one more object.
ToolRoom == Len(NonMarker(cv.objs)) + Len(imgLoads) < MaxToolObjs

\* Toolbar.handleAddText: addTextToCanvas adds at once; object:added refreshes the
\* layer list.
handleAddText ==
    /\ ToolRoom
    /\ LET c == CanvasAdd(cv, "textbox", "#000000")
       IN ToolCommand("addText", "", c, updateLayers(c, Append(ids, NoId)), imgLoads)

\* addImageToCanvas up to its `await`: FabricImage.fromURL(url) is in flight. The
\* loads that were already in flight have been followed by a later request.
StartImageLoad(inflight, url) ==
    Append([k \in 1..Len(inflight) |-> [inflight[k] EXCEPT !.superseded = TRUE]],
           [url |-> url, superseded |-> FALSE])

\* Toolbar.handleImageUpload (reader.onload -> addImageToCanvas)
handleImageUpload ==
    /\ ToolRoom
    /\ ToolCommand("request", "file", cv, ids, StartImageLoad(imgLoads, "file"))

\* Toolbar.handleClipartSelect
handleClipartSelect ==
    /\ ToolRoom
    /\ ToolCommand("request", "clipart", cv, ids, StartImageLoad(imgLoads, "clipart"))

\* addImageToCanvas after its `await`, for the k-th load in flight: canvas.add(img)
\* (object:added refreshes the layer list), canvas.setActiveObject(img).
ImageLoaded(k) ==
    LET c == CanvasAdd(cv, "image", "#000000")
    IN ToolCommand("imageLoaded",
                   IF imgLoads[k].superseded THEN "superseded" ELSE "latest",
                   c, updateLayers(c, Append(ids, NoId)), RemoveAt(imgLoads, k))

\* FabricImage.fromURL rejects: addImageToCanvas throws 'Failed to load image'.
ImageFailed(k) ==
    /\ cv' = cv
    /\ ids' = ids
    /\ imgLoads' = RemoveAt(imgLoads, k)
    /\ obs' = Observation("imageLoaded",
                          IF imgLoads[k].superseded THEN "superseded" ELSE "latest",
                          EmptyCanvas, NoDoc, "threw")
    /\ UNCHANGED <<fh, drawer>>
    /\ UNCHANGED editorVars
    /\ UNCHANGED clampVars

\* A click on an object of the canvas or on its layer.
ToolSelect(i) ==
    /\ cv.objs[i].selectable /\ cv.objs[i].visible
    /\ cv.active # i
    /\ ToolCommand("select", "", [cv EXCEPT !.active = i], ids, imgLoads)

\* handleKeyDown, Delete / Backspace: object:removed refreshes the layer list.
ToolKeyDelete ==
    /\ cv.active # 0
    /\ LET c == DeleteKey(cv)
           left == IF Len(c.objs) = Len(cv.objs) THEN ids ELSE RemoveAt(ids, cv.active)
       IN ToolCommand("delete", "key", c, updateLayers(c, left), imgLoads)

NextToolbar ==
    \/ handleAddText
    \/ handleImageUpload
    \/ handleClipartSelect
    \/ \E k \in 1..Len(imgLoads) : ImageLoaded(k)
    \/ \E k \in 1..Len(imgLoads) : ImageFailed(k)
    \/ \E i \in Places(cv) : ToolSelect(i)
    \/ ToolKeyDelete

SpecToolbar == InitToolbar /\ [][NextToolbar]_vars


(***************************************************************************)
(* Properties of the history subsystem (checked under Spec)                *)
(***************************************************************************)
\* The step is the synchronous part of a handleUndo / handleRedo call.
CallStep(op) == steps' = steps + 1 /\ lastCall'.op = op

\* The step is the completion of a restore (loadFromJSON resolved).
RestoreStep == Len(loads') < Len(loads) /\ lastCall'.res = "restored"

\* The values React renders next: the queued updates applied to the rendered state.
NextHistory == ApplyHistory(history, pending)
NextIndex == ApplyIndex(historyIndex, pending)

HasPush(q) == \E k \in 1..Len(q) : q[k].u = "push"

\* The promise handleUndo / handleRedo returns to its caller, by outcome: a missing
\* snapshot returns from inside the try block, so the promise resolves.
PromiseOf(res) == IF res = "rejected" THEN "rejected" ELSE "resolved"

\* C1: history depth. After N committed mutations with no undo or redo, the rendered
\* history has exactly N+1 entries and the cursor is N.
C1_HistoryDepth ==
    (Idle /\ history # <<>> /\ ~undone) =>
        (Len(history) = nMut + 1 /\ historyIndex = nMut)

\* C2: cursor range. Whenever the history is non-empty,
\* 0 <= historyIndex <= history.length - 1.
C2_CursorInRange ==
    history # <<>> => (0 <= historyIndex /\ historyIndex <= Len(history) - 1)

\* C3: undo/redo step. An undo called with cursor > 0 (a redo called below the last
\* index) restores a snapshot, and when its restore completes the cursor React renders
\* next is one below (above) the cursor of the call and the scene's non-marker objects
\* are those of the snapshot at that cursor.
C3_UndoRedoStep ==
    /\ (lastCall.op \in {"undo", "redo"} => lastCall.res # "missing")
    /\ (lastCall.res = "restored" =>
            /\ NextIndex = lastCall.from + (IF lastCall.op = "undo" THEN -1 ELSE 1)
            /\ Defined(NextHistory, NextIndex)
            /\ NonMarker(objs) = NonMarker(NextHistory[NextIndex + 1].objects))

\* C4: undo with an empty history or the cursor at 0, and redo with the cursor at the
\* last index, change neither the scene, the history, the cursor nor the replaying
\* guard (rendered or queued), and start no restore. While the history is empty
\* (before the initial save is rendered) both handlers take their early return.
C4_BoundaryNoOp ==
    /\ [](history = <<>> => (UndoReturnsEarly /\ RedoReturnsEarly))
    /\ [][(\/ CallStep("undo") /\ (history = <<>> \/ historyIndex = 0)
           \/ CallStep("redo") /\ historyIndex = Len(history) - 1)
          => UNCHANGED <<objs, backgroundImage, history, historyIndex,
                         isHistoryProcessing, pending, loads>>]_vars

\* An undo at cursor 0 that returned early, with later entries in the history and a
\* scene that is not empty.
C4_Witness ==
    lastCall = Call("undo", "noop", 0) /\ Len(history) > 1 /\ objs # <<>>

\* A redo at the last index that returned early, two or more commits after the baseline.
C4_RedoWitness ==
    /\ lastCall.op = "redo" /\ lastCall.res = "noop"
    /\ historyIndex = Len(history) - 1 /\ historyIndex > 1

\* C5: no redo branching. When React renders mutations committed while the cursor was
\* below the last index, the entries after the cursor are gone, the new snapshot is
\* the last entry and the cursor is the last index (so redo is a no-op).
C5_NoRedoBranching ==
    [][(/\ lastCall'.op = "render"
        /\ HasPush(pending)
        /\ 0 <= historyIndex /\ historyIndex < Len(history) - 1)
       => /\ historyIndex' = Len(history') - 1
          /\ SubSeq(history', 1, historyIndex + 1) = SubSeq(history, 1, historyIndex + 1)
          /\ Len(history') = historyIndex + 2]_vars

\* C6: a completed undo or redo leaves the marker on the canvas and the background
\* mockup set, whatever the index restored.
C6_RestoreKeepsSystemLayers ==
    [][(RestoreStep /\ HasMarker(objs) /\ backgroundImage)
       => (HasMarker(objs') /\ backgroundImage')]_vars

\* C7: replay guard. The events a restore raises queue no history entry: a completed
\* undo or redo queues only the cursor and the guard.
C7_ReplayGuard ==
    lastCall.res = "restored" => (~HasPush(pending) /\ NextHistory = history)

\* C8: atomic restore failure. An undo or redo whose snapshot is missing or cannot be
\* reconstructed leaves the scene and the cursor as they were and rejects to its caller.
C8_AtomicRestoreFailure ==
    [][(lastCall'.op \in {"undo", "redo"} /\ lastCall'.res \in {"missing", "rejected"}
        /\ lastCall' # lastCall)
       => /\ UNCHANGED <<objs, backgroundImage, historyIndex>>
          /\ ApplyIndex(historyIndex', pending') = historyIndex
          /\ PromiseOf(lastCall'.res) = "rejected"]_vars

(***************************************************************************)
(* Properties of the strict clamp (checked under SpecClamp)                *)
(***************************************************************************)
FitsX == mobj.width * mobj.scaleX <= area.width
FitsY == mobj.height * mobj.scaleY <= area.height

InsideX ==
    area.left <= mobj.left /\ mobj.left + mobj.width * mobj.scaleX <= area.left + area.width
InsideY ==
    area.top <= mobj.top /\ mobj.top + mobj.height * mobj.scaleY <= area.top + area.height

\* C9: strict clamp containment. After any sequence of object:moving events, an object
\* whose scaled width and height do not exceed the area's lies fully inside the area.
C9_ClampContainment ==
    (mobj.moved /\ FitsX /\ FitsY) => (InsideX /\ InsideY)

\* A fitting object dragged beyond the right edge and above the top edge, clamped.
C9_Witness ==
    /\ mobj.moved /\ FitsX /\ FitsY
    /\ mobj.dragLeft + mobj.width * mobj.scaleX > area.left + area.width
    /\ mobj.dragTop < area.top
    /\ InsideX /\ InsideY

\* C10: an oversized object is pinned flush against the edge nearest to where
\* it was dragged: the left (top) edge when dragged beyond the left (top) edge, else
\* the right (bottom) edge.
C10_OversizedNearestEdge ==
    /\ (mobj.moved /\ ~FitsX) =>
           IF mobj.dragLeft < area.left
           THEN mobj.left = area.left
           ELSE mobj.left + mobj.width * mobj.scaleX = area.left + area.width
    /\ (mobj.moved /\ ~FitsY) =>
           IF mobj.dragTop < area.top
           THEN mobj.top = area.top
           ELSE mobj.top + mobj.height * mobj.scaleY = area.top + area.height

\* What the handler does with an oversized object: the move is handled and leaves the
\* object's right (bottom) edge flush against the area's right (bottom) edge, whatever
\* the direction of the drag.
C10_OversizedFlushFarEdge ==
    /\ (mobj.moved /\ ~FitsX) =>
           mobj.left + mobj.width * mobj.scaleX = area.left + area.width
    /\ (mobj.moved /\ ~FitsY) =>
           mobj.top + mobj.height * mobj.scaleY = area.top + area.height

\* An object oversized on both axes, dragged beyond the left edge and below the top
\* edge, left sticking out of the area on the left.
C10_Witness ==
    /\ mobj.moved /\ ~FitsX /\ ~FitsY
    /\ mobj.dragLeft < area.left /\ mobj.dragTop > area.top
    /\ mobj.left < area.left

(***************************************************************************)
(* Properties of the canvas utilities and the panels (SpecScene)           *)
(***************************************************************************)
\* The visibility of the overlay of a canvas (TRUE when it has none).
OverlayVisible(c) ==
    IF FindOverlay(c.objs) = 0 THEN TRUE ELSE c.objs[FindOverlay(c.objs)].visible

\* C11: after any editable-area export (every format, with or without background)
\* has returned or thrown, the canvas background image, the background fill colour and
\* the marker's visibility equal their values from immediately before the export.
C11_ExportRestoresRenderState ==
    [][obs'.op = "export" =>
          /\ cv'.bg = cv.bg
          /\ cv'.bgColor = cv.bgColor
          /\ Len(cv'.objs) = Len(cv.objs)
          /\ \A i \in 1..Len(cv.objs) : cv'.objs[i] = cv.objs[i]]_vars

\* An export without background threw while the mockup, the fill and the overlay were
\* hidden, and the canvas shows all three again.
C11_Witness ==
    /\ obs.op = "export" /\ obs.res = "threw"
    /\ obs.mid.bg = "none" /\ obs.mid.bgColor = "transparent"
    /\ ~OverlayVisible(obs.mid)
    /\ cv.bg = "mockup" /\ cv.bgColor = "#ffffff"
    /\ FindOverlay(cv.objs) # 0 /\ OverlayVisible(cv)

\* C13: the Document Snapshot produced by exportCanvasToJSON never contains the
\* editable-area marker and never contains the background mockup: it has no background
\* image and one entry per non-marker object of the canvas, in order.
C13_SnapshotOmitsMarkerAndBackground ==
    obs.op = "exportJSON" =>
        /\ obs.out.backgroundImage = "none"
        /\ obs.out.objects = canvasToJSON([cv EXCEPT !.objs = NonMarker(cv.objs)], {}).objects

\* A snapshot exported from a canvas that holds the overlay and nothing else has an
\* entry: the overlay's rect, without its name.
C13_Witness ==
    /\ obs.op = "exportJSON"
    /\ cv.objs = <<OverlayObj>>
    /\ obs.out.objects = <<toObject(OverlayObj, {})>>

\* C14: no history entry ever contains the editable-area marker or the background
\* mockup: every snapshot pushed by saveHistory serializes only non-marker objects.
C14_HistoryOmitsMarkerAndBackground ==
    \A k \in 1..Len(history) :
        /\ ~history[k].backgroundImage
        /\ \A i \in 1..Len(history[k].objects) : ~IsMarker(history[k].objects[i])

\* A history entry that holds both the overlay and the mockup.
C14_Witness ==
    \E k \in 1..Len(history) :
        /\ history[k].backgroundImage
        /\ \E i \in 1..Len(history[k].objects) : IsMarker(history[k].objects[i])

\* The overlays of a list of objects.
Markers(s) == SelectSeq(s, IsMarker)

\* The step imports the file the preceding ExportJSON wrote from the very canvas cv.
RoundTripStep == obs.op = "exportJSON" /\ obs'.op = "import" /\ obs'.out = obs.out

\* C15: importCanvasFromJSON(exportCanvasToJSON(scene)) yields a scene whose non-marker
\* objects have the same count, the same kinds in the same z-order and the same
\* attribute values as the original, and still exactly one marker.
C15_SnapshotRoundTrip ==
    [][(RoundTripStep /\ Len(Markers(cv.objs)) = 1)
       => /\ obs'.res = "ok"
          /\ NonMarker(cv'.objs) = NonMarker(cv.objs)
          /\ Len(Markers(cv'.objs)) = 1]_vars

\* The scene after the round trip of a canvas that held the overlay and nothing else:
\* the overlay and a rect the user never added.
C15_Witness ==
    /\ obs.op = "import" /\ obs.res = "ok"
    /\ obs.out = exportCanvasToJSON(LoadedCanvas)
    /\ cv.objs = <<OverlayObj, CanvasObj("rect", "", TRUE, TRUE, "transparent")>>

C17_CorruptImportReported ==
    [][(obs'.op = "import" /\ Corrupt(obs'.out))
       => (cv' = cv /\ obs'.res = "rejected")]_vars

\* The import of JSON without an objects array has ended without a failure.
C17_Witness ==
    obs.op = "import" /\ obs.out = NoObjectsArray /\ obs.res = "ok"

\* What the code does with a corrupt snapshot: the scene is left unchanged, and the
\* failure is reported unless the text is JSON without an objects array.
C17_CorruptImportLeavesScene ==
    [][(obs'.op = "import" /\ Corrupt(obs'.out))
       => /\ cv' = cv
          /\ obs'.res = (IF obs'.out.kind = "noObjects" THEN "ok" ELSE "rejected")]_vars

C18_MarkerNeverActive == cv.active # 0 => ~IsMarker(cv.objs[cv.active])

\* In the strict editor's history model the overlay stays non-selectable and keeps its
\* name through every undo and redo restore (snapshots list 'name' and 'selectable').
C18_OverlayStaysUnselectable ==
    \A i \in 1..Len(objs) : objs[i].type = "rect" => (IsMarker(objs[i]) /\ ~objs[i].selectable)

\* No user object is below the overlay in the stacking order.
MarkerLowest(c) == FindOverlay(c.objs) <= 1

\* C19: in the strict editor, after any sequence of reorder operations (bring to
\* front, send to back, bring forward, send backward) from the properties panel or the
\* layer panel, no user object is below the marker in the canvas stacking order.
C19_NoObjectBelowMarker ==
    [][(obs'.op = "reorder" /\ MarkerLowest(cv)) => MarkerLowest(cv')]_vars

\* 'Send backward' of the properties panel has put the only user object below the
\* overlay.
C19_Witness ==
    /\ obs.op = "reorder" /\ obs.arg = "sendBackward"
    /\ Len(cv.objs) = 2 /\ ~IsMarker(cv.objs[1]) /\ cv.objs[2] = OverlayObj

\* The commands other than reorders keep the overlay lowest.
C19_OthersKeepMarkerLowest ==
    [][(obs'.op # "reorder" /\ MarkerLowest(cv)) => MarkerLowest(cv')]_vars

(***************************************************************************)
(* Properties of the free-placement editor (SpecFree)                      *)
(***************************************************************************)
\* No frame of the editable area is drawn on the canvas c, and nothing is selected.
NoChrome(c) ==
    /\ c.active = 0
    /\ \A i \in 1..Len(c.objs) : DrawnAsOverlay(c.objs[i]) => ~c.objs[i].visible

\* C12: at the moment an editable-area export rasterizes or vectorizes the canvas, no
\* object that is the editable-area marker is visible and there is no active
\* selection, in every reachable editor state (after undo, redo or import too).
C12_NoChromeInExport == obs.op = "export" => NoChrome(obs.mid)

\* An export has rasterized the frame of the editable area: a history restore had
\* rebuilt it without its name.
C12_Witness ==
    /\ obs.op = "export"
    /\ \E i \in 1..Len(obs.mid.objs) :
           /\ DrawnAsOverlay(obs.mid.objs[i]) /\ obs.mid.objs[i].visible
           /\ obs.mid.objs[i].name = ""
    /\ fh.index < Len(fh.entries) - 1

\* What the exports do guarantee: nothing is selected and the object named
\* 'editableAreaOverlay' is hidden.
C12_NamedOverlayHidden ==
    obs.op = "export" =>
        /\ obs.mid.active = 0
        /\ \A i \in 1..Len(obs.mid.objs) :
               IsMarker(obs.mid.objs[i]) => ~obs.mid.objs[i].visible

\* The handlers C20 calls mutations.
Mutations == {"add", "delete", "modify", "reorder", "ai", "import", "undo", "redo"}

\* The frame of the editable area, when the canvas holds one, is its topmost object.
MarkerOnTop(c) ==
    (\E i \in 1..Len(c.objs) : DrawnAsOverlay(c.objs[i]))
        => DrawnAsOverlay(c.objs[Len(c.objs)])

\* C20: in the free-placement editor, after every mutation (object added, removed,
\* modified or reordered, AI image applied, import, undo, redo) has been handled, the
\* marker is the topmost object in the canvas stacking order.
C20_MarkerTopmost == obs.op \in Mutations => MarkerOnTop(cv)

\* A text added after an undo lies above the frame of the editable area.
C20_Witness ==
    /\ obs.op = "add"
    /\ cv.objs = <<CanvasObj("rect", "", TRUE, TRUE, "transparent"),
                   CanvasObj("textbox", "", TRUE, TRUE, "#000000")>>

\* While the overlay still carries its name, every mutation leaves it topmost.
C20_NamedOverlayTopmost ==
    (obs.op \in Mutations /\ FindOverlay(cv.objs) # 0)
        => FindOverlay(cv.objs) = Len(cv.objs)

(***************************************************************************)
(* Properties of the toolbar's image requests and the layer list           *)
(* (SpecToolbar)                                                           *)
(***************************************************************************)
\* C21: when an image-add request is retried or followed by a later request while
\* its pixel source is still loading, the earlier load's result, if it resolves after
\* being superseded, is not applied: no object is added for it.
C21_SupersededLoadDiscarded ==
    [][(obs'.op = "imageLoaded" /\ obs'.arg = "superseded" /\ imgLoads' # imgLoads)
       => cv'.objs = cv.objs]_vars

\* A clipart was requested twice while loading; both loads resolved and the canvas
\* holds two images, the superseded one on top.
C21_Witness ==
    /\ obs.op = "imageLoaded" /\ obs.arg = "superseded" /\ obs.res = "ok"
    /\ imgLoads = <<>>
    /\ Len(SelectSeq(cv.objs, LAMBDA o : o.type = "image")) = 2

\* C22: after any sequence of add and delete operations followed by a layer-list
\* refresh, no two objects on the canvas carry the same id, and an object's id never
\* changes once assigned.
C22_IdsUnique ==
    \A i, j \in 1..Len(ids) : (i # j /\ ids[i] # NoId /\ ids[j] # NoId) => ids[i] # ids[j]

\* Two objects on the canvas carry the id `layer-1`.
C22_Witness ==
    /\ Len(ids) = 3
    /\ ids[2] = 1 /\ ids[3] = 1

\* The half of C22 that holds: across every handler that adds or selects, the objects
\* keep the id they have; after a delete the remaining ids are those of before.
C22_IdsStable ==
    [][/\ (obs'.op \in {"addText", "imageLoaded", "request", "select"})
          => \A i \in 1..Len(ids) : ids[i] # NoId => (Len(ids') >= i /\ ids'[i] = ids[i])
       /\ (obs'.op = "delete" /\ Len(ids') < Len(ids))
          => ids' = RemoveAt(ids, cv.active)]_vars

\* C26: the SVG export with background falls back to the export without background:
\* at the vectorization the canvas is prepared exactly as exportEditableAreaAsSVG
\* prepares it (mockup and fill suppressed, overlay hidden), so both give one output.
C26_SvgWithBackgroundFallsBack ==
    [][ExportEditableArea("SVGbg", FALSE)
       => obs'.mid = exportEditableArea(cv, "SVG", FALSE).mid]_vars

\* A with-background export has vectorized the canvas with the mockup and the white
\* fill in place, where the export without background has neither.
C26_Witness ==
    /\ obs.op = "export" /\ obs.arg = "withBackground" /\ obs.res = "ok"
    /\ obs.mid.bg = "mockup" /\ obs.mid.bgColor = "#ffffff"
    /\ obs.mid # exportEditableArea(cv, "SVG", FALSE).mid

\* The half of C26 that holds: both SVG exports hide the named overlay, deselect, keep
\* the objects and leave the canvas as it was.
C26_SvgExportsDifferInBackgroundOnly ==
    [][ExportEditableArea("SVGbg", FALSE)
       => /\ obs'.mid.objs = exportEditableArea(cv, "SVG", FALSE).mid.objs
          /\ obs'.mid.active = 0
          /\ cv' = exportEditableArea(cv, "SVG", FALSE).canvas]_vars

\* The objects of a list identified as the editable-area marker.
NamedMarkers(s) == SelectSeq(s, LAMBDA o : IsMarker(o) /\ ~o.selectable)

\* C27: marker uniqueness. In every state after the background has loaded, the canvas
\* holds exactly one object named 'editableAreaOverlay' that is not selectable, under
\* any sequence of add, delete, import, undo and redo.
C27_ExactlyOneMarker ==
    bgLoad = "done" => Len(NamedMarkers(objs)) = 1

\* The mockup has loaded and an undo has restored a snapshot: the canvas holds no
\* object named 'editableAreaOverlay'.
C27_Witness ==
    /\ bgLoad = "done"
    /\ lastCall.op = "undo" /\ lastCall.res = "restored"
    /\ Len(NamedMarkers(objs)) = 0

\* The same statement for the free-placement editor, whose snapshots drop the name.
C27_FreeExactlyOneMarker ==
    (fh.index >= 0 /\ cv.bg = "mockup") => Len(NamedMarkers(cv.objs)) = 1

\* The half of C27 that holds: the canvas never holds two markers.
C27_AtMostOneMarker ==
    Len(NamedMarkers(objs)) <= 1

\* An undo or redo has passed its guard: it is awaiting the restore, or has ended by
\* restoring the snapshot, by finding none, or by a rejection.
UndoRedoAttempt ==
    /\ lastCall.op \in {"undo", "redo"}
    /\ lastCall.res \in {"started", "restored", "missing", "rejected"}

\* C28: the replaying guard is always released. After every undo or redo attempt,
\* whether it restored the snapshot, found no snapshot or threw, isHistoryProcessing
\* is eventually false with no update left to apply.
C28_GuardReleased ==
    UndoRedoAttempt ~> (~isHistoryProcessing /\ pending = <<>>)

\* A restore has been rejected while the guard was up.
C28_Witness ==
    /\ lastCall.op \in {"undo", "redo"} /\ lastCall.res = "rejected"
    /\ isHistoryProcessing
    /\ pending = <<SetProcUpd(FALSE)>>

\* No snapshot was found at the index: the guard is released in the same batch.
C28_MissingWitness ==
    /\ lastCall.op \in {"undo", "redo"} /\ lastCall.res = "missing"
    /\ pending = <<SetProcUpd(TRUE), SetProcUpd(FALSE)>>

\* Two undo requests whose restores are both outstanding, in the order requested.
OverlappingUndos ==
    Len(loads) >= 2 /\ loads[1].op = "undo" /\ loads[2].op = "undo"

\* C29: overlapping undo requests each take effect once. A second undo requested while
\* the first one's restore is outstanding restores the snapshot one entry before the
\* first one's (or entry 0), so that the cursor ends two entries back.
C29_SecondUndoGoesOneFurther ==
    OverlappingUndos =>
        loads[2].index = (IF loads[1].index = 0 THEN 0 ELSE loads[1].index - 1)

\* Two undos requested at cursor 2 are both restoring entry 1.
C29_Witness ==
    /\ OverlappingUndos
    /\ loads[1].from >= 2 /\ loads[2].from = loads[1].from
    /\ loads[1].index = loads[1].from - 1 /\ loads[2].index = loads[1].index

\* What the handlers do: every outstanding undo restores the entry just before the
\* cursor rendered when it was requested, whatever else is outstanding.
C29_UndoTargetsEntryBeforeCursor ==
    \A k \in 1..Len(loads) : loads[k].op = "undo" => loads[k].index = loads[k].from - 1

(***************************************************************************)
(* The strict clamp and the resize handles                                 *)
(***************************************************************************)

\* One mouse move of a drag of the bottom-right resize handle: fabric keeps the
\* object's left and top, sets its scale factors and raises object:scaling. The
\* editor registers a listener for object:moving only, so nothing else runs.
ObjectScaling(sx, sy) ==
    /\ mobj.scaleX # sx \/ mobj.scaleY # sy
    /\ mobj' = [mobj EXCEPT !.scaleX = sx, !.scaleY = sy]
    /\ obs' = Observation("scaling", "", EmptyCanvas, NoDoc, "ok")
    /\ UNCHANGED area
    /\ UNCHANGED <<cv, fh, imgLoads, ids, drawer>>
    /\ UNCHANGED editorVars

NextResize ==
    \/ \E p \in Positions, q \in Positions : ObjectMoving(p, q)
    \/ \E sx \in 1..MaxScale, sy \in 1..MaxScale : ObjectScaling(sx, sy)

\* The resize model starts from the unscaled default object, over every area.
InitResize ==
    /\ canvasSet = FALSE
    /\ objs = <<>>
    /\ backgroundImage = FALSE
    /\ bgLoad = "pending"
    /\ history = <<>>
    /\ historyIndex = -1
    /\ isHistoryProcessing = FALSE
    /\ pending = <<SetCanvasUpd>>
    /\ loads = <<>>
    /\ lastCall = Call("mount", "ok", -1)
    /\ nMut = 0
    /\ steps = 0
    /\ undone = FALSE
    /\ area \in Areas
    /\ mobj = DefaultObj
    /\ cv = EmptyCanvas
    /\ obs = NoObs
    /\ fh = NoFreeHistory
    /\ imgLoads = <<>>
    /\ ids = <<>>
    /\ drawer = ClosedDrawer

SpecResize == InitResize /\ [][NextResize]_vars

\* C25: the strict clamp also covers resize. After a scaling interaction on an object
\* that lay inside the editable area and still fits it, the object's bounding box lies
\* fully inside the area.
C25_ResizeContainment ==
    [][(/\ mobj.moved /\ InsideX /\ InsideY
        /\ (mobj'.scaleX # mobj.scaleX \/ mobj'.scaleY # mobj.scaleY)
        /\ FitsX' /\ FitsY')
       => (InsideX' /\ InsideY')]_vars

\* An object dragged to a place inside the area and then enlarged: it still fits the
\* area and sticks out of it.
C25_Witness ==
    /\ obs.op = "scaling"
    /\ mobj.moved /\ FitsX /\ FitsY
    /\ area.left <= mobj.left /\ area.top <= mobj.top
    /\ ~(InsideX /\ InsideY)

\* The half of C25 that holds: a move after the resize brings a fitting object back
\* inside the area.
C25_MoveAfterResizeContained ==
    [][(mobj'.dragLeft # mobj.dragLeft \/ mobj'.dragTop # mobj.dragTop \/ mobj'.left # mobj.left
            \/ mobj'.top # mobj.top \/ mobj'.moved # mobj.moved)
       => ((FitsX' /\ FitsY') => (InsideX' /\ InsideY'))]_vars

(***************************************************************************)
(* The export drawer: requested dimensions and the raster produced        *)
(***************************************************************************)

\* The largest number typed into the width and height fields.
MaxInput == 4

\* ExportDrawer's base sizes for the initial dimensions.
BaseWidth == 4500
BaseHeight == 5400

\* Math.round(n / d) for positive n and d.
RoundDiv(n, d) == (2 * n + d) \div (2 * d)

\* The sizes a canvas element may get for the real size n / d: the integer itself,
\* or one of its two neighbours when n / d is not an integer.
PixelSizes(n, d) == IF n % d = 0 THEN {n \div d} ELSE {n \div d, (n \div d) + 1}

InitDrawer ==
    /\ canvasSet = FALSE
    /\ objs = <<>>
    /\ backgroundImage = FALSE
    /\ bgLoad = "pending"
    /\ history = <<>>
    /\ historyIndex = -1
    /\ isHistoryProcessing = FALSE
    /\ pending = <<SetCanvasUpd>>
    /\ loads = <<>>
    /\ lastCall = Call("mount", "ok", -1)
    /\ nMut = 0
    /\ steps = 0
    /\ undone = FALSE
    /\ area \in Areas
    /\ mobj = DefaultObj
    /\ cv = LoadedCanvas
    /\ obs = NoObs
    /\ fh = NoFreeHistory
    /\ imgLoads = <<>>
    /\ ids = <<>>
    /\ drawer = ClosedDrawer

\* A handler of the drawer: only the drawer's state changes.
DrawerCommand(d) ==
    /\ drawer' = d
    /\ UNCHANGED <<cv, obs, fh, imgLoads, ids>>
    /\ UNCHANGED editorVars
    /\ UNCHANGED clampVars

\* handleOpenExport shows the drawer, and the drawer's effect on isOpen sets the
\* dimensions from the editable area's aspect.
DrawerOpened(d, a) ==
    IF a.width > a.height
    THEN [d EXCEPT !.open = TRUE, !.width = BaseWidth,
                   !.height = RoundDiv(BaseWidth * a.height, a.width)]
    ELSE [d EXCEPT !.open = TRUE, !.height = BaseHeight,
                   !.width = RoundDiv(BaseHeight * a.width, a.height)]

OpenDrawer ==
    /\ ~drawer.open
    /\ DrawerCommand(DrawerOpened(drawer, area))

\* handleWidthChange: the height follows only while the aspect is locked.
handleWidthChange(newWidth) ==
    /\ drawer.open
    /\ DrawerCommand(
          IF drawer.locked
          THEN [drawer EXCEPT !.width = newWidth,
                              !.height = RoundDiv(newWidth * area.height, area.width)]
          ELSE [drawer EXCEPT !.width = newWidth])

\* handleHeightChange: the width follows only while the aspect is locked.
handleHeightChange(newHeight) ==
    /\ drawer.open
    /\ DrawerCommand(
          IF drawer.locked
          THEN [drawer EXCEPT !.height = newHeight,
                              !.width = RoundDiv(newHeight * area.width, area.height)]
          ELSE [drawer EXCEPT !.height = newHeight])

\* The lock button: setIsAspectLocked(!isAspectLocked).
ToggleAspectLock ==
    /\ drawer.open
    /\ DrawerCommand([drawer EXCEPT !.locked = ~drawer.locked])

\* handleExportClick -> DesignEditor.handleExport: resolution = width / editableWidth
\* (settings.height is not read), and toDataURL crops the editable area and multiplies
\* both of its sides by the resolution. The drawer is closed.
handleExportClick ==
    /\ drawer.open
    /\ drawer.width > 0
    /\ \E w \in PixelSizes(area.width * drawer.width, area.width),
          h \in PixelSizes(area.height * drawer.width, area.width) :
            DrawerCommand([drawer EXCEPT !.open = FALSE, !.rasterW = w, !.rasterH = h])

NextDrawer ==
    \/ OpenDrawer
    \/ \E n \in 1..MaxInput : handleWidthChange(n)
    \/ \E n \in 1..MaxInput : handleHeightChange(n)
    \/ ToggleAspectLock
    \/ handleExportClick

SpecDrawer == InitDrawer /\ [][NextDrawer]_vars

(***************************************************************************)
(* The preview of the export drawer (free-placement editor)                *)
(***************************************************************************)

\* The statements of handleOpenExport after toDataURL: they run only when toDataURL
\* has returned.
PreviewRestore(c, wasVisible, threw) ==
    IF threw THEN c
    ELSE [c EXCEPT !.objs = SetVisible(c.objs, FindOverlay(c.objs), wasVisible)]

\* handleOpenExport: the overlay found by name is hidden, the canvas is rendered to a
\* data URL, the overlay's visibility is written back, the preview is stored and the
\* drawer is shown. canvas.toDataURL may throw (a canvas tainted by a cross-origin
\* image); the exception leaves the handler at once.
handleOpenExport(threw) ==
    LET i == FindOverlay(cv.objs)
        wasVisible == IF i = 0 THEN TRUE ELSE cv.objs[i].visible
        mid == [cv EXCEPT !.objs = SetVisible(cv.objs, i, FALSE)]
    IN /\ FreeReady
       /\ cv' = PreviewRestore(mid, wasVisible, threw)
       /\ obs' = Observation("openExport", "", mid, NoDoc,
                              IF threw THEN "threw" ELSE "ok")
       /\ drawer' = IF threw THEN drawer ELSE DrawerOpened(drawer, area)
       /\ UNCHANGED <<fh, imgLoads, ids>>
       /\ UNCHANGED editorVars
       /\ UNCHANGED clampVars

\* The drawer's close button and backdrop: onClose.
CloseDrawer ==
    /\ drawer.open
    /\ drawer' = [drawer EXCEPT !.open = FALSE]
    /\ UNCHANGED <<cv, obs, fh, imgLoads, ids>>
    /\ UNCHANGED editorVars
    /\ UNCHANGED clampVars

NextPreview ==
    \/ \E loaded \in BOOLEAN : loadBackground(loaded)
    \/ \E t \in ObjTypes : FreeAdd(t)
    \/ \E i \in Places(cv) : FreeSelect(i)
    \/ FreeKeyDelete
    \/ \E threw \in BOOLEAN : handleOpenExport(threw)
    \/ CloseDrawer

SpecPreview == InitFree /\ [][NextPreview]_vars

\* C30: opening the export drawer never corrupts the marker's visibility. After
\* handleOpenExport has returned or thrown, the visible flag of the overlay equals its
\* value from before the call.
C30_OpenExportKeepsMarkerVisibility ==
    [][(handleOpenExport(TRUE) \/ handleOpenExport(FALSE))
       => OverlayVisible(cv') = OverlayVisible(cv)]_vars

\* toDataURL threw while the preview was generated: the overlay, visible before the
\* call, is left hidden.
C30_Witness ==
    /\ obs.op = "openExport" /\ obs.res = "threw"
    /\ FindOverlay(cv.objs) # 0
    /\ ~OverlayVisible(cv)

\* The half of C30 that holds: a call that returns leaves the visibility, and the whole
\* canvas, as it was.
C30_ReturnKeepsCanvas ==
    [][handleOpenExport(FALSE) => cv' = cv]_vars

\* C24: the exported raster has exactly the requested pixel dimensions, for every
\* requested width and height, also when the aspect lock is off.
C24_RasterHasRequestedSize ==
    [][(drawer.open /\ ~drawer'.open)
       => (drawer'.rasterW = drawer.width /\ drawer'.rasterH = drawer.height)]_vars

\* With the lock off a height was typed that the aspect does not give; the raster
\* exported has the requested width and another height.
C24_Witness ==
    /\ ~drawer.open /\ ~drawer.locked
    /\ drawer.rasterW = drawer.width
    /\ drawer.rasterH # 0 /\ drawer.rasterH # drawer.height

\* The half of C24 that holds: the raster has the requested width.
C24_RasterHasRequestedWidth ==
    [][(drawer.open /\ ~drawer'.open) => drawer'.rasterW = drawer.width]_vars

\* The handlers of the toolbar, the keyboard and the layer panel that change the scene.
PanelMutations == {"add", "delete", "color", "visibility", "reorder"}

\* C23: every committed mutation of the scene (add, remove, property change from the
\* toolbar, visibility toggle, z-order change from the layer panel) appends exactly one
\* entry to the history: the cursor advances by one and points at the last entry.
C23_EveryMutationRecorded ==
    [][(obs'.op \in PanelMutations /\ cv'.objs # cv.objs)
       => (fh'.index = fh.index + 1 /\ Len(fh'.entries) = fh'.index + 1)]_vars

\* The text's colour was changed from the toolbar: the scene shows the new colour and
\* the cursor still points at the snapshot taken when the text was added.
C23_Witness ==
    /\ obs.op = "color"
    /\ fh.index = 1 /\ Len(fh.entries) = 2
    /\ cv.active # 0 /\ cv.objs[cv.active].fill = "#ff0000"
    /\ \A i \in 1..Len(fh.entries[2].objects) : fh.entries[2].objects[i].fill # "#ff0000"

\* The half of C23 that holds: the handlers that raise object:added or object:removed
\* append exactly one entry.
C23_EventedMutationsRecorded ==
    [][(obs'.op \in {"add", "delete"} /\ cv'.objs # cv.objs)
       => (fh'.index = fh.index + 1 /\ Len(fh'.entries) = fh'.index + 1)]_vars

====
